---- MODULE Spec2Model ----
(***************************************************************************)
(* Model of strategy_2026.py: the NAV normalization engine of the          *)
(* "Starship 2026" dashboard.  One run of the script is one behaviour:     *)
(*   fetch_all_data (prepare the window, download) ->                      *)
(*   the loop over PORTFOLIOS calling get_portfolio_nav ->                 *)
(*   the aggregate column -> the top dashboard -> the per-portfolio grid.  *)
(*                                                                         *)
(* pandas objects are modelled by what the code relies on:                 *)
(*   Series     [index : sorted sequence of dates, val : date -> float]    *)
(*   DataFrame  [columns : sequence of names, index : sorted sequence of   *)
(*               dates, cell : name -> date -> float]                      *)
(* A float is an exact rational <<n, d>> in lowest terms with d > 0; NaN   *)
(* is <<0, 0>>.  Timestamps are integers counting ticks, TicksPerDay ticks *)
(* to a calendar day, and a date string "%Y-%m-%d" is the day number.      *)
(***************************************************************************)
EXTENDS Integers, Sequences, FiniteSets, TLC

\* ---------------------------------------------------------------- bounds
\* Calendar days on which the provider may return a row: 1..MaxDay.
MaxDay == 2
\* Closing prices are drawn from 1..MaxPrice (a closing price is positive).
MaxPrice == 2
\* The nominal start date is drawn from 1..MaxStart, the clock from the
\* days 0..MaxStart.
MaxStart == 2
\* Clock resolution: ticks per calendar day.
TicksPerDay == 2

\* ------------------------------------------------------ program constants
\* pd.Timedelta(days=60): the preview look-back.
LOOKBACK_DAYS == 60

\* The configured portfolios, in dict insertion order (scaled down to three
\* portfolios over two symbols; a symbol may belong to several portfolios).
PORTFOLIOS == << [name |-> "P1", tickers |-> <<"A">>],
                 [name |-> "P2", tickers |-> <<"A", "B">>],
                 [name |-> "P3", tickers |-> <<"B">>] >>

\* The name of the aggregate column of all_navs.
TOTAL == "Total"

\* ------------------------------------------------------------ sequences
Range(s) == {s[i] : i \in DOMAIN s}

RECURSIVE SortedSeq(_)
\* The elements of a finite set of integers, ascending.
SortedSeq(S) ==
    IF S = {} THEN <<>>
    ELSE LET m == CHOOSE x \in S : \A y \in S : x <= y
         IN  <<m>> \o SortedSeq(S \ {m})

\* ---------------------------------------------------------------- floats
NaN == <<0, 0>>
Fl(n) == <<n, 1>>
IsNaN(x) == x[2] = 0
Abs(n) == IF n < 0 THEN -n ELSE n

RECURSIVE GCD(_, _)
GCD(a, b) == IF b = 0 THEN a ELSE GCD(b, a % b)

\* The rational n/d (d # 0) in lowest terms with a positive denominator.
Norm(n, d) ==
    LET g == GCD(Abs(n), Abs(d))
        s == IF d < 0 THEN -1 ELSE 1
    IN  <<(s * n) \div g, (s * d) \div g>>

FAdd(a, b) == IF IsNaN(a) \/ IsNaN(b) THEN NaN
              ELSE Norm(a[1] * b[2] + b[1] * a[2], a[2] * b[2])
FSub(a, b) == IF IsNaN(a) \/ IsNaN(b) THEN NaN
              ELSE Norm(a[1] * b[2] - b[1] * a[2], a[2] * b[2])
FMul(a, b) == IF IsNaN(a) \/ IsNaN(b) THEN NaN
              ELSE Norm(a[1] * b[1], a[2] * b[2])
\* numpy float division: NaN propagates; a zero divisor gives a non-finite
\* value and raises nothing (all non-finite values are folded into NaN).
FDiv(a, b) == IF IsNaN(a) \/ IsNaN(b) \/ b[1] = 0 THEN NaN
              ELSE Norm(a[1] * b[2], a[2] * b[1])

RECURSIVE FSum(_)
FSum(s) == IF s = <<>> THEN Fl(0) ELSE FAdd(Head(s), FSum(Tail(s)))

\* NanMean with the missing cells counted as zero.
NanMeanZeroFill(s) ==
    LET present == SelectSeq(s, LAMBDA x : ~IsNaN(x))
    IN  IF present = <<>> THEN NaN
        ELSE FDiv(FSum(present), Fl(Len(s)))

\* mean(skipna=True) of a sequence of floats: NaN cells are left out of both
\* the sum and the count; with nothing left the mean is NaN.
NanMean(s) ==
    LET present == SelectSeq(s, LAMBDA x : ~IsNaN(x))
    IN  IF present = <<>> THEN NaN
        ELSE FDiv(FSum(present), Fl(Len(present)))

\* ------------------------------------------------------- pandas objects
EmptyFrame == [columns |-> <<>>, index |-> <<>>, cell |-> <<>>]
EmptySeries == [index |-> <<>>, val |-> <<>>]

\* DataFrame.empty: any axis of length zero.
FrameEmpty(df) == df.columns = <<>> \/ df.index = <<>>

\* The fetched price table: [multi, cols, index, cell].  With multi = TRUE
\* (MultiIndex columns, group_by='ticker') cols are the symbols present and
\* cell[t][d] is data[t]['Close'] at d; with multi = FALSE cols are the
\* price fields of the one symbol and cell["Close"][d] is data['Close'].
EmptyTable == [multi |-> FALSE, cols |-> {}, index |-> <<>>, cell |-> <<>>]
TableEmpty(data) == data.cols = {} \/ data.index = <<>>

\* ExtractCloses leaving the loop at the first symbol the table lacks.
ExtractClosesStop(data, tickers) ==
    LET Has(t) == IF data.multi THEN t \in data.cols ELSE "Close" \in data.cols
        k == IF \A j \in DOMAIN tickers : Has(tickers[j]) THEN Len(tickers)
             ELSE (CHOOSE j \in DOMAIN tickers :
                      ~Has(tickers[j]) /\ \A m \in 1..(j - 1) : Has(tickers[m])) - 1
        cols == SubSeq(tickers, 1, k)
        idx == IF cols = <<>> THEN <<>> ELSE data.index
    IN  [columns |-> cols, index |-> idx,
         cell |-> [t \in Range(cols) |->
                     [d \in Range(idx) |->
                        IF data.multi THEN data.cell[t][d]
                        ELSE data.cell["Close"][d]]]]

\* The loop "for t in tickers" that fills closes: a symbol the table does not
\* hold is passed over; the first column assigned gives closes its index.
ExtractCloses(data, tickers) ==
    LET Has(t) == IF data.multi THEN t \in data.cols ELSE "Close" \in data.cols
        cols == SelectSeq(tickers, Has)
        idx == IF cols = <<>> THEN <<>> ELSE data.index
    IN  [columns |-> cols, index |-> idx,
         cell |-> [t \in Range(cols) |->
                     [d \in Range(idx) |->
                        IF data.multi THEN data.cell[t][d]
                        ELSE data.cell["Close"][d]]]]

\* closes.dropna(how='all'): a row survives when some column has a value.
DropNaAll(df) ==
    LET Keep(d) == \E c \in Range(df.columns) : ~IsNaN(df.cell[c][d])
        idx == SelectSeq(df.index, Keep)
    IN  [columns |-> df.columns, index |-> idx,
         cell |-> [c \in Range(df.columns) |->
                     [d \in Range(idx) |-> df.cell[c][d]]]]

\* datetime.strptime(s, "%Y-%m-%d") and pd.to_datetime(s): midnight of day s.
\* Index labels of the daily table are midnights too.
ToDatetime(day) == day * TicksPerDay
\* dt.strftime("%Y-%m-%d"): the calendar day holding the instant.
StrfDate(ts) == ts \div TicksPerDay

\* valid_data[valid_data.index >= start_ts]: the index of the rows kept.
\* (tz_localize gives start_ts the zone of the index, so both sides of the
\* comparison are wall-clock midnights of the same zone.)
RowsFrom(index, start_ts) ==
    SelectSeq(index, LAMBDA d : ToDatetime(d) >= start_ts)

\* ResolveBase taking the last row on or after the start date.
ResolveBaseLast(index, start_date, is_future) ==
    IF is_future
    THEN IF index = <<>>
         THEN [found |-> FALSE, exc |-> "IndexError", date |-> 0]
         ELSE [found |-> TRUE, exc |-> "none", date |-> index[1]]
    ELSE LET future_index == RowsFrom(index, ToDatetime(start_date))
         IN  IF future_index = <<>>
             THEN [found |-> FALSE, exc |-> "none", date |-> 0]
             ELSE [found |-> TRUE, exc |-> "none",
                   date |-> future_index[Len(future_index)]]

\* ResolveBase anchoring to the start date in preview mode too.
ResolveBaseAnchored(index, start_date, is_future) ==
    LET future_index == RowsFrom(index, ToDatetime(start_date))
    IN  IF future_index = <<>>
        THEN [found |-> FALSE, exc |-> "none", date |-> 0]
        ELSE [found |-> TRUE, exc |-> "none", date |-> future_index[1]]

\* Lines 68-77: the baseline date.  [found, exc, date]; index[0] of an
\* empty index raises IndexError.
ResolveBase(index, start_date, is_future) ==
    IF is_future
    THEN IF index = <<>>
         THEN [found |-> FALSE, exc |-> "IndexError", date |-> 0]
         ELSE [found |-> TRUE, exc |-> "none", date |-> index[1]]
    ELSE LET future_index == RowsFrom(index, ToDatetime(start_date))
         IN  IF future_index = <<>>
             THEN [found |-> FALSE, exc |-> "none", date |-> 0]
             ELSE [found |-> TRUE, exc |-> "none", date |-> future_index[1]]

\* Normalize without the slice .loc[base_date:].
NormalizeNoSlice(valid_data, base_date) ==
    [columns |-> valid_data.columns, index |-> valid_data.index,
     cell |-> [c \in Range(valid_data.columns) |->
                 [d \in Range(valid_data.index) |->
                    FDiv(valid_data.cell[c][d],
                         valid_data.cell[c][base_date])]]]

\* valid_data.loc[base_date:].div(valid_data.loc[base_date]): the rows from
\* the baseline label on (label slice of a sorted index), every column
\* divided by its own cell of the baseline row.
Normalize(valid_data, base_date) ==
    LET idx == SelectSeq(valid_data.index, LAMBDA d : d >= base_date)
    IN  [columns |-> valid_data.columns, index |-> idx,
         cell |-> [c \in Range(valid_data.columns) |->
                     [d \in Range(idx) |->
                        FDiv(valid_data.cell[c][d],
                             valid_data.cell[c][base_date])]]]

\* df.mean(axis=1): per row, the mean over the columns, NaN skipped.
MeanAxis1(df) ==
    [index |-> df.index,
     val |-> [d \in Range(df.index) |->
                NanMean([k \in 1..Len(df.columns) |-> df.cell[df.columns[k]][d]])]]

NoNav == [ok |-> FALSE, exc |-> "none", base_date |-> 0,
          p_nav |-> EmptySeries, s_navs |-> EmptyFrame]

\* get_portfolio_nav: (None, None) is ok = FALSE; a raised exception is exc.
get_portfolio_nav(data, tickers, start_date, is_future) ==
    IF tickers = <<>> \/ TableEmpty(data) THEN NoNav
    ELSE LET closes == ExtractCloses(data, tickers)
             valid_data == DropNaAll(closes)
         IN  IF FrameEmpty(valid_data) THEN NoNav
             ELSE LET base == ResolveBase(valid_data.index, start_date, is_future)
                  IN  IF base.exc # "none" THEN [NoNav EXCEPT !.exc = base.exc]
                      ELSE IF ~base.found THEN NoNav
                      ELSE LET stock_navs == Normalize(valid_data, base.date)
                           IN  [ok |-> TRUE, exc |-> "none",
                                base_date |-> base.date,
                                p_nav |-> MeanAxis1(stock_navs),
                                s_navs |-> stock_navs]

\* all_navs[name] = series (DataFrame.__setitem__ with a Series): a frame
\* whose index is still empty takes the index of the series; otherwise the
\* series is reindexed to the index the frame already has (labels the frame
\* lacks are dropped, labels the series lacks become NaN).
SetColumn(df, name, series) ==
    LET adopt == df.index = <<>> /\ series.index # <<>>
        idx == IF adopt THEN series.index ELSE df.index
        cols == IF name \in Range(df.columns) THEN df.columns
                ELSE Append(df.columns, name)
    IN  [columns |-> cols, index |-> idx,
         cell |-> [c \in Range(cols) |->
                     [d \in Range(idx) |->
                        IF c = name
                        THEN IF d \in Range(series.index)
                             THEN series.val[d] ELSE NaN
                        ELSE IF adopt THEN NaN ELSE df.cell[c][d]]]]

\* df[name] as a Series.
Column(df, name) == [index |-> df.index, val |-> df.cell[name]]

\* full_data.xs('Close', level=1, axis=1).iloc[-1] for MultiIndex columns
\* (one latest close per symbol), full_data['Close'].iloc[-1] otherwise (a
\* scalar).  Reached only with a table that has rows.
LatestPrices(data) ==
    LET last == data.index[Len(data.index)]
    IN  IF data.multi
        THEN [scalar |-> FALSE, by |-> [t \in data.cols |-> data.cell[t][last]]]
        ELSE [scalar |-> TRUE, by |-> [t \in {"Close"} |-> data.cell["Close"][last]]]

\* Snapshot reading the last row for the prior value as well.
SnapshotPrevLatest(navs) ==
    IF TOTAL \notin Range(navs.columns)
    THEN [exc |-> "KeyError", shown |-> FALSE, latest_nav |-> NaN,
          prev_nav |-> NaN, daily_change |-> NaN, total_return |-> NaN,
          latest_date_str |-> 0]
    ELSE IF navs.index = <<>>
    THEN [exc |-> "IndexError", shown |-> FALSE, latest_nav |-> NaN,
          prev_nav |-> NaN, daily_change |-> NaN, total_return |-> NaN,
          latest_date_str |-> 0]
    ELSE LET n == Len(navs.index)
             latest == navs.cell[TOTAL][navs.index[n]]
         IN  [exc |-> "none", shown |-> TRUE,
              latest_nav |-> latest,
              prev_nav |-> latest,
              daily_change |-> FDiv(FSub(latest, latest), latest),
              total_return |-> FSub(latest, Fl(1)),
              latest_date_str |-> StrfDate(ToDatetime(navs.index[n]))]

\* Lines 121-128, the body of "if not all_navs.empty" of the dashboard.
Snapshot(navs) ==
    IF TOTAL \notin Range(navs.columns)
    THEN [exc |-> "KeyError", shown |-> FALSE, latest_nav |-> NaN,
          prev_nav |-> NaN, daily_change |-> NaN, total_return |-> NaN,
          latest_date_str |-> 0]
    ELSE IF navs.index = <<>>
    THEN [exc |-> "IndexError", shown |-> FALSE, latest_nav |-> NaN,
          prev_nav |-> NaN, daily_change |-> NaN, total_return |-> NaN,
          latest_date_str |-> 0]
    ELSE LET total == Column(navs, TOTAL)
             n == Len(total.index)
             latest == total.val[total.index[n]]
             prev == IF n > 1 THEN total.val[total.index[n - 1]] ELSE latest
         IN  [exc |-> "none", shown |-> TRUE,
              latest_nav |-> latest,
              prev_nav |-> prev,
              daily_change |-> FDiv(FSub(latest, prev), prev),
              total_return |-> FSub(latest, Fl(1)),
              latest_date_str |-> StrfDate(ToDatetime(navs.index[n]))]

NoSnapshot == [exc |-> "none", shown |-> FALSE, latest_nav |-> NaN,
               prev_nav |-> NaN, daily_change |-> NaN, total_return |-> NaN,
               latest_date_str |-> 0]

\* IsFuture with the comparison made inclusive.
IsFutureInclusive(start_dt, now) == start_dt >= now

\* start_dt > today, the two datetimes of lines 28-30.
IsFuture(start_dt, now) == start_dt > now

\* Line 33: the start of the price request, a date string.
FetchStart(start_date, now, future) ==
    IF ~future THEN start_date
    ELSE StrfDate(now - LOOKBACK_DAYS * TicksPerDay)

\* all_tickers, line 26.
AllTickers == UNION {Range(PORTFOLIOS[k].tickers) : k \in DOMAIN PORTFOLIOS}

\* ------------------------------------------------------- the environment
\* datetime.now(): any instant of days 0..MaxStart.
Nows == {ToDatetime(d) + k : d \in 0..MaxStart, k \in 0..(TicksPerDay - 1)}
Days == 1..MaxDay
Cells == {NaN} \cup {Fl(p) : p \in 1..MaxPrice}

\* ------------------------------------------------------------ the state
VARIABLES
    pc,             \* position of the script
    start_date,     \* START_DATE, a day number
    fetch_frame,    \* the locals of fetch_all_data while it runs (else <<>>)
    st_error,       \* st.error was called
    full_data,      \* the price table returned by fetch_all_data
    is_future_mode, \* the mode flag returned by fetch_all_data
    i,              \* position of the loop over PORTFOLIOS.items()
    all_navs,       \* DataFrame: one column per resolved portfolio
    details_map,    \* name -> [stock_navs, latest_prices]
    calls,          \* name -> what get_portfolio_nav returned for it
    snapshot,       \* the dashboard metrics
    grid,           \* name -> the figures of the per-portfolio panel
    exc             \* an exception that reached the top level, else "none"

vars == <<pc, start_date, fetch_frame, st_error, full_data, is_future_mode, i,
          all_navs, details_map, calls, snapshot, grid, exc>>

Init ==
    /\ pc = "fetch"
    /\ start_date \in 1..MaxStart
    /\ fetch_frame = <<>>
    /\ st_error = FALSE
    /\ full_data = EmptyTable
    /\ is_future_mode = FALSE
    /\ i = 1
    /\ all_navs = EmptyFrame
    /\ details_map = <<>>
    /\ calls = <<>>
    /\ snapshot = NoSnapshot
    /\ grid = <<>>
    /\ exc = "none"

\* fetch_all_data, lines 26-33: the clock is read and the window decided.
FetchPrepare ==
    /\ pc = "fetch"
    /\ \E now \in Nows :
         LET future == IsFuture(ToDatetime(start_date), now)
         IN  fetch_frame' = << [today |-> now, is_future |-> future,
                                all_tickers |-> AllTickers,
                                fetch_start |-> FetchStart(start_date, now, future)] >>
    /\ pc' = "download"
    /\ UNCHANGED <<start_date, st_error, full_data, is_future_mode, i,
                   all_navs, details_map, calls, snapshot, grid, exc>>

\* yf.download returns a table (lines 37, 42).  The provider is external:
\* any subset of the symbols, any set of days, any cell missing.  A list of
\* symbols with group_by='ticker' comes back with MultiIndex columns.
DownloadReturns ==
    /\ pc = "download"
    /\ \E cs \in SUBSET fetch_frame[1].all_tickers, D \in SUBSET Days :
         \E f \in [cs -> [D -> Cells]] :
            full_data' = [multi |-> TRUE, cols |-> cs,
                          index |-> SortedSeq(D), cell |-> f]
    /\ is_future_mode' = fetch_frame[1].is_future
    /\ fetch_frame' = <<>>
    /\ pc' = "loop"
    /\ UNCHANGED <<start_date, st_error, i, all_navs, details_map,
                   calls, snapshot, grid, exc>>

\* yf.download raises (lines 38-40): st.error, return pd.DataFrame(), False.
DownloadRaises ==
    /\ pc = "download"
    /\ st_error' = TRUE
    /\ full_data' = EmptyTable
    /\ is_future_mode' = FALSE
    /\ fetch_frame' = <<>>
    /\ pc' = "loop"
    /\ UNCHANGED <<start_date, i, all_navs, details_map, calls,
                   snapshot, grid, exc>>

\* Line 99 with an empty table: the loop and the aggregate are skipped.
SkipLoop ==
    /\ pc = "loop"
    /\ TableEmpty(full_data)
    /\ pc' = "dashboard"
    /\ UNCHANGED <<start_date, fetch_frame, st_error, full_data,
                   is_future_mode, i, all_navs, details_map, calls,
                   snapshot, grid, exc>>

\* PortfolioStep without the test "if p_nav is not None".
PortfolioStepUnchecked ==
    /\ pc = "loop"
    /\ ~TableEmpty(full_data)
    /\ i <= Len(PORTFOLIOS)
    /\ LET name == PORTFOLIOS[i].name
           res == get_portfolio_nav(full_data, PORTFOLIOS[i].tickers,
                                    start_date, is_future_mode)
       IN  /\ all_navs' = SetColumn(all_navs, name, res.p_nav)
           /\ details_map' =
                [n \in DOMAIN details_map \cup {name} |->
                   IF n = name
                   THEN [stock_navs |-> res.s_navs,
                         latest_prices |-> LatestPrices(full_data)]
                   ELSE details_map[n]]
           /\ calls' = [n \in DOMAIN calls \cup {name} |->
                          IF n = name THEN res ELSE calls[n]]
           /\ i' = i + 1
           /\ UNCHANGED <<pc, exc>>
    /\ UNCHANGED <<start_date, fetch_frame, st_error, full_data,
                   is_future_mode, snapshot, grid>>

\* One iteration of the loop, lines 100-106.
PortfolioStep ==
    /\ pc = "loop"
    /\ ~TableEmpty(full_data)
    /\ i <= Len(PORTFOLIOS)
    /\ LET name == PORTFOLIOS[i].name
           res == get_portfolio_nav(full_data, PORTFOLIOS[i].tickers,
                                    start_date, is_future_mode)
       IN  IF res.exc # "none"
           THEN /\ exc' = res.exc
                /\ pc' = "crashed"
                /\ UNCHANGED <<i, all_navs, details_map, calls>>
           ELSE /\ IF res.ok
                   THEN /\ all_navs' = SetColumn(all_navs, name, res.p_nav)
                        /\ details_map' =
                             [n \in DOMAIN details_map \cup {name} |->
                                IF n = name
                                THEN [stock_navs |-> res.s_navs,
                                      latest_prices |-> LatestPrices(full_data)]
                                ELSE details_map[n]]
                   ELSE UNCHANGED <<all_navs, details_map>>
                /\ calls' = [n \in DOMAIN calls \cup {name} |->
                               IF n = name THEN res ELSE calls[n]]
                /\ i' = i + 1
                /\ UNCHANGED <<pc, exc>>
    /\ UNCHANGED <<start_date, fetch_frame, st_error, full_data,
                   is_future_mode, snapshot, grid>>

\* Lines 109-110, after the loop: the aggregate column.
Aggregate ==
    /\ pc = "loop"
    /\ ~TableEmpty(full_data)
    /\ i > Len(PORTFOLIOS)
    /\ all_navs' = IF ~FrameEmpty(all_navs)
                   THEN SetColumn(all_navs, TOTAL, MeanAxis1(all_navs))
                   ELSE all_navs
    /\ pc' = "dashboard"
    /\ UNCHANGED <<start_date, fetch_frame, st_error, full_data,
                   is_future_mode, i, details_map, calls, snapshot,
                   grid, exc>>

\* Dashboard without the test "if not all_navs.empty".
DashboardUnguarded ==
    /\ pc = "dashboard"
    /\ LET snap == Snapshot(all_navs)
       IN  IF snap.exc # "none"
           THEN /\ exc' = snap.exc
                /\ pc' = "crashed"
                /\ UNCHANGED snapshot
           ELSE /\ snapshot' = snap
                /\ pc' = "details"
                /\ UNCHANGED exc
    /\ UNCHANGED <<start_date, fetch_frame, st_error, full_data,
                   is_future_mode, i, all_navs, details_map, calls, grid>>

\* Lines 119-128: the top dashboard.
Dashboard ==
    /\ pc = "dashboard"
    /\ IF ~FrameEmpty(all_navs)
       THEN LET snap == Snapshot(all_navs)
            IN  IF snap.exc # "none"
                THEN /\ exc' = snap.exc
                     /\ pc' = "crashed"
                     /\ UNCHANGED snapshot
                ELSE /\ snapshot' = snap
                     /\ pc' = "details"
                     /\ UNCHANGED exc
       ELSE /\ pc' = "details"
            /\ UNCHANGED <<snapshot, exc>>
    /\ UNCHANGED <<start_date, fetch_frame, st_error, full_data,
                   is_future_mode, i, all_navs, details_map, calls, grid>>

\* Lines 177-207 for one portfolio shown in the grid: the latest portfolio
\* NAV, its return in percent and, per symbol of stock_navs, the latest NAV
\* and prices.get(t, 0).
Panel(navs, details, name) ==
    LET series == Column(navs, name)
        curr == series.val[series.index[Len(series.index)]]
        s_navs == details[name].stock_navs
        prices == details[name].latest_prices
        last == s_navs.index[Len(s_navs.index)]
    IN  [curr |-> curr,
         ret |-> FMul(FSub(curr, Fl(1)), Fl(100)),
         rows |-> IF name \in DOMAIN details
                  THEN [t \in Range(s_navs.columns) |->
                          [nav |-> s_navs.cell[t][last],
                           price |-> IF t \in DOMAIN prices.by
                                     THEN prices.by[t] ELSE Fl(0)]]
                  ELSE <<>>]

\* What rendering one panel raises: iloc[-1] of an empty Series, .get of a
\* scalar latest_prices.
PanelExc(navs, details, name) ==
    IF navs.index = <<>> THEN "IndexError"
    ELSE IF name \in DOMAIN details /\ details[name].latest_prices.scalar
    THEN "AttributeError"
    ELSE "none"

\* Lines 173-212: the grid, one panel per portfolio that is a column of
\* all_navs.
RenderDetails ==
    /\ pc = "details"
    /\ LET shown == {PORTFOLIOS[k].name : k \in DOMAIN PORTFOLIOS}
                       \cap Range(all_navs.columns)
           raised == {n \in shown : PanelExc(all_navs, details_map, n) # "none"}
       IN  IF raised # {}
           THEN /\ exc' = PanelExc(all_navs, details_map,
                                   CHOOSE n \in raised : TRUE)
                /\ pc' = "crashed"
                /\ UNCHANGED grid
           ELSE /\ grid' = [n \in shown |-> Panel(all_navs, details_map, n)]
                /\ pc' = "done"
                /\ UNCHANGED exc
    /\ UNCHANGED <<start_date, fetch_frame, st_error, full_data,
                   is_future_mode, i, all_navs, details_map, calls,
                   snapshot>>

Next ==
    \/ FetchPrepare
    \/ DownloadReturns
    \/ DownloadRaises
    \/ SkipLoop
    \/ PortfolioStep
    \/ Aggregate
    \/ Dashboard
    \/ RenderDetails

Spec == Init /\ [][Next]_vars

\* ============================================================== claims
\* What the claims speak about, read off the fetched table itself.
Names == {PORTFOLIOS[k].name : k \in DOMAIN PORTFOLIOS}
TickersOf(name) ==
    Range(PORTFOLIOS[CHOOSE k \in DOMAIN PORTFOLIOS : PORTFOLIOS[k].name = name].tickers)
\* The closing price of symbol t on day d, NaN where the table has none.
Price(t, d) ==
    IF t \in full_data.cols /\ d \in Range(full_data.index)
    THEN full_data.cell[t][d] ELSE NaN
\* The dates of the cleaned price table of a portfolio.
CleanDates(name) ==
    {d \in Range(full_data.index) :
        \E t \in TickersOf(name) : ~IsNaN(Price(t, d))}
IsMin(m, S) == m \in S /\ \A e \in S : m <= e

\* C1: historical mode (is_future = FALSE): for every call made, the chosen
\* baseline is the smallest date of the cleaned table that is >= start_date;
\* when every cleaned date is < start_date the call returns no NAV series.
C1_HistoricalBaseline ==
    \A name \in DOMAIN calls :
        ~is_future_mode =>
            LET cand == {d \in CleanDates(name) : d >= start_date}
            IN  IF cand = {}
                THEN ~calls[name].ok /\ calls[name].p_nav = EmptySeries
                ELSE calls[name].ok /\ IsMin(calls[name].base_date, cand)

\* A historical run in which one portfolio has only dates before the start
\* date and another resolves to a date that is not its first.
C1_Witness ==
    /\ ~is_future_mode
    /\ \E n \in DOMAIN calls :
         CleanDates(n) # {} /\ (\A d \in CleanDates(n) : d < start_date)
    /\ \E n \in DOMAIN calls :
         /\ calls[n].ok
         /\ \E d \in CleanDates(n) : d < calls[n].base_date

\* C2: preview mode (is_future = TRUE): for every call made on a non-empty
\* cleaned table the baseline is its earliest date, whatever start_date is.
C2_PreviewBaseline ==
    \A name \in DOMAIN calls :
        (is_future_mode /\ CleanDates(name) # {}) =>
            /\ calls[name].ok
            /\ IsMin(calls[name].base_date, CleanDates(name))

\* A preview run whose baseline lies before the nominal start date.
C2_Witness ==
    /\ is_future_mode
    /\ \E n \in DOMAIN calls :
         /\ calls[n].ok
         /\ calls[n].base_date < start_date
         /\ \E d \in CleanDates(n) : d >= start_date

\* The value v is the quotient p / q of two present prices (cross-multiplied).
IsQuotient(v, p, q) == ~IsNaN(v) /\ v[1] * q[1] * p[2] = p[1] * q[2] * v[2]

\* The instrument series of column t of a resolved call: no date before the
\* baseline, every value the price of the day over the price of the baseline
\* day (missing when either is missing).
NormalizedFrom(name, t) ==
    LET c == calls[name]
    IN  /\ c.s_navs.index # <<>>
        /\ c.s_navs.index[1] = c.base_date
        /\ \A d \in Range(c.s_navs.index) :
             /\ d >= c.base_date
             /\ IF IsNaN(Price(t, d)) \/ IsNaN(Price(t, c.base_date))
                THEN IsNaN(c.s_navs.cell[t][d])
                ELSE IsQuotient(c.s_navs.cell[t][d], Price(t, d),
                                Price(t, c.base_date))

\* C3 as stated: every instrument series of a resolved portfolio is
\* normalized from the baseline and is exactly 1.0 on the baseline date
\* (read for the instruments that have a price on or after the baseline).
C3_AsStated ==
    \A name \in DOMAIN calls :
        calls[name].ok =>
            \A t \in Range(calls[name].s_navs.columns) :
                (\E d \in Range(calls[name].s_navs.index) : ~IsNaN(Price(t, d))) =>
                    /\ NormalizedFrom(name, t)
                    /\ calls[name].s_navs.cell[t][calls[name].base_date] = Fl(1)

\* C3 amended: every instrument series of a resolved portfolio is normalized
\* from the baseline; it is exactly 1.0 on the baseline date when the
\* instrument has a price on that date, and otherwise has no value at all.
C3_Normalization ==
    \A name \in DOMAIN calls :
        calls[name].ok =>
            \A t \in Range(calls[name].s_navs.columns) :
                /\ NormalizedFrom(name, t)
                /\ IF ~IsNaN(Price(t, calls[name].base_date))
                   THEN calls[name].s_navs.cell[t][calls[name].base_date] = Fl(1)
                   ELSE \A d \in Range(calls[name].s_navs.index) :
                           IsNaN(calls[name].s_navs.cell[t][d])

\* A resolved portfolio with one instrument priced on the baseline date and
\* moving afterwards, and another first priced after the baseline date.
C3_Witness ==
    \E n \in DOMAIN calls :
        /\ calls[n].ok
        /\ \E t, u \in Range(calls[n].s_navs.columns) :
             \E d \in Range(calls[n].s_navs.index) :
                /\ d > calls[n].base_date
                /\ ~IsNaN(Price(t, calls[n].base_date))
                /\ ~IsNaN(calls[n].s_navs.cell[t][d])
                /\ calls[n].s_navs.cell[t][d] # Fl(1)
                /\ IsNaN(Price(u, calls[n].base_date))
                /\ ~IsNaN(Price(u, d))

RECURSIVE SumOver(_, _)
\* The sum of f[x] over the finite set S.
SumOver(f, S) ==
    IF S = {} THEN Fl(0)
    ELSE LET x == CHOOSE y \in S : TRUE
         IN  FAdd(f[x], SumOver(f, S \ {x}))

\* v is the arithmetic mean of f over the non-empty set S.
IsMeanOf(v, f, S) == ~IsNaN(v) /\ FMul(v, Fl(Cardinality(S))) = SumOver(f, S)

\* C4: on every date of a resolved portfolio's NAV series the portfolio NAV
\* is the mean of the NAVs of exactly the instruments that have one on that
\* date (none: the portfolio NAV is missing too); when a single instrument
\* of the portfolio has data on the date, the portfolio NAV is that
\* instrument's NAV.
C4_PortfolioMean ==
    \A name \in DOMAIN calls :
        calls[name].ok =>
            LET c == calls[name]
            IN  /\ c.p_nav.index = c.s_navs.index
                /\ \A d \in Range(c.p_nav.index) :
                     LET row == [t \in Range(c.s_navs.columns) |-> c.s_navs.cell[t][d]]
                         have == {t \in Range(c.s_navs.columns) : ~IsNaN(row[t])}
                         priced == {t \in TickersOf(name) : ~IsNaN(Price(t, d))}
                     IN  /\ IF have = {} THEN IsNaN(c.p_nav.val[d])
                            ELSE IsMeanOf(c.p_nav.val[d], row, have)
                         /\ \A t \in have : have = {t} => c.p_nav.val[d] = row[t]
                         /\ \A t \in priced : priced = {t} => c.p_nav.val[d] = row[t]

\* A two-instrument portfolio, both priced on the baseline date, with a date
\* on which only one of them has a NAV, and that NAV is not 1.0.
C4_Witness ==
    \E n \in DOMAIN calls :
        /\ calls[n].ok
        /\ Len(calls[n].s_navs.columns) = 2
        /\ \A t \in Range(calls[n].s_navs.columns) :
              calls[n].s_navs.cell[t][calls[n].base_date] = Fl(1)
        /\ \E d \in Range(calls[n].p_nav.index) :
              /\ Cardinality({t \in Range(calls[n].s_navs.columns) :
                                ~IsNaN(calls[n].s_navs.cell[t][d])}) = 1
              /\ ~IsNaN(calls[n].p_nav.val[d])
              /\ calls[n].p_nav.val[d] # Fl(1)

\* The portfolios that resolved, and the script past the aggregate.
ResolvedNames == {n \in DOMAIN calls : calls[n].ok}
AfterAggregate == pc \in {"dashboard", "details", "done"} /\ ~TableEmpty(full_data)
PNavAt(n, d) == IF d \in Range(calls[n].p_nav.index) THEN calls[n].p_nav.val[d] ELSE NaN

\* C5 as stated: once the aggregate is computed, its dates are the union of
\* the dates of the resolved portfolios' NAV series, and on each date where
\* some resolved portfolio has a value the aggregate is the mean of the
\* portfolio NAVs present on that date.
C5_AsStated ==
    (AfterAggregate /\ ResolvedNames # {}) =>
        LET dates == UNION {Range(calls[n].p_nav.index) : n \in ResolvedNames}
        IN  /\ TOTAL \in Range(all_navs.columns)
            /\ Range(all_navs.index) = dates
            /\ \A d \in dates :
                 LET at == [n \in ResolvedNames |-> PNavAt(n, d)]
                     have == {n \in ResolvedNames : ~IsNaN(at[n])}
                 IN  have # {} =>
                        /\ d \in Range(all_navs.index)
                        /\ IsMeanOf(all_navs.cell[TOTAL][d], at, have)

\* What the code does keep of C5: the aggregate lives on the dates of the
\* first resolved portfolio, and on those dates it is the mean of the
\* portfolio NAVs present.
C5_OnFirstIndex ==
    (AfterAggregate /\ ResolvedNames # {}) =>
        /\ TOTAL \in Range(all_navs.columns)
        /\ \E n \in ResolvedNames : all_navs.index = calls[n].p_nav.index
        /\ \A d \in Range(all_navs.index) :
             LET at == [n \in ResolvedNames |-> PNavAt(n, d)]
                 have == {n \in ResolvedNames : ~IsNaN(at[n])}
             IN  IF have = {} THEN IsNaN(all_navs.cell[TOTAL][d])
                 ELSE IsMeanOf(all_navs.cell[TOTAL][d], at, have)

\* A portfolio yields no series: no instrument with data, or (historical
\* mode) no cleaned date on or after the start date.
NoSeries(name) ==
    \/ CleanDates(name) = {}
    \/ ~is_future_mode /\ \A d \in CleanDates(name) : d < start_date

\* C6: a portfolio that yields no NAV series is in neither all_navs nor
\* details_map and adds nothing to the aggregate; every other portfolio is
\* still computed, stored and aggregated; no exception reaches the top.
C6_FailureIsolation ==
    /\ exc = "none" /\ pc # "crashed"
    /\ \A name \in DOMAIN calls :
         /\ NoSeries(name) => ~calls[name].ok
         /\ ~calls[name].ok =>
               name \notin Range(all_navs.columns) /\ name \notin DOMAIN details_map
         /\ calls[name].ok =>
               name \in Range(all_navs.columns) /\ name \in DOMAIN details_map
    /\ AfterAggregate => DOMAIN calls = Names
    /\ Range(all_navs.columns) \subseteq ResolvedNames \cup {TOTAL}
    /\ TOTAL \in Range(all_navs.columns) =>
         \A d \in Range(all_navs.index) :
            LET at == [n \in ResolvedNames |-> all_navs.cell[n][d]]
                have == {n \in ResolvedNames : ~IsNaN(at[n])}
            IN  IF have = {} THEN IsNaN(all_navs.cell[TOTAL][d])
                ELSE IsMeanOf(all_navs.cell[TOTAL][d], at, have)

\* A finished run in which the first portfolio yielded no series although
\* the table has rows, and a later portfolio resolved and was aggregated.
C6_Witness ==
    /\ pc = "done"
    /\ DOMAIN calls = Names
    /\ ~calls[PORTFOLIOS[1].name].ok
    /\ calls[PORTFOLIOS[Len(PORTFOLIOS)].name].ok
    /\ TOTAL \in Range(all_navs.columns)
    /\ PORTFOLIOS[Len(PORTFOLIOS)].name \in DOMAIN grid

\* Symbol t has no data: absent from the table, or missing on every row.
NoData(t) == \A d \in Range(full_data.index) : IsNaN(Price(t, d))

\* C7: in a portfolio {x, y} where x has no data and y has some, nothing is
\* raised and the portfolio NAV is the NAV of y alone: it resolves exactly
\* when y has a baseline, on the dates of y from the baseline on, each value
\* the price of y over its baseline price; it equals the NAV of a portfolio
\* made of y only.
C7_MissingInstrument ==
    /\ exc = "none"
    /\ \A name \in DOMAIN calls : \A x, y \in TickersOf(name) :
         (TickersOf(name) = {x, y} /\ x # y /\ NoData(x) /\ ~NoData(y)) =>
            LET c == calls[name]
                ydates == {d \in Range(full_data.index) : ~IsNaN(Price(y, d))}
                cand == IF is_future_mode THEN ydates
                        ELSE {d \in ydates : d >= start_date}
            IN  /\ IF cand = {} THEN ~c.ok
                   ELSE /\ c.ok
                        /\ IsMin(c.base_date, cand)
                        /\ Range(c.p_nav.index) = {d \in ydates : d >= c.base_date}
                        /\ \A d \in Range(c.p_nav.index) :
                              /\ IsQuotient(c.p_nav.val[d], Price(y, d),
                                            Price(y, c.base_date))
                              /\ c.p_nav.val[d] = c.s_navs.cell[y][d]
                /\ \A n2 \in DOMAIN calls :
                      TickersOf(n2) = {y} =>
                         calls[n2].ok = c.ok /\ calls[n2].p_nav = c.p_nav

\* A resolved two-symbol portfolio, one symbol absent from the table, the
\* NAV of the other moving away from 1.0.
C7_Witness ==
    \E n \in DOMAIN calls : \E x, y \in TickersOf(n) :
        /\ x # y
        /\ x \notin full_data.cols
        /\ calls[n].ok
        /\ \E d \in Range(calls[n].p_nav.index) :
              ~IsNaN(calls[n].p_nav.val[d]) /\ calls[n].p_nav.val[d] # Fl(1)

\* C8: once the download has raised (st.error was shown), the table is the
\* empty one, no portfolio is resolved, all_navs and details_map stay empty,
\* no aggregate and no snapshot is computed, nothing is raised, and the
\* script keeps running until it is done.
C8_AcquisitionFailure ==
    st_error =>
        /\ full_data = EmptyTable
        /\ calls = <<>>
        /\ all_navs = EmptyFrame
        /\ details_map = <<>>
        /\ ~snapshot.shown
        /\ grid = <<>>
        /\ exc = "none" /\ pc # "crashed"
        /\ pc # "done" => ENABLED Next

\* A run whose download raised and that reached its end.
C8_Witness == st_error /\ pc = "done"

\* C9: with current_date the calendar day of datetime.now(), is_future is
\* start_date > current_date (strictly), and the request starts 60 days
\* before current_date when is_future, at start_date otherwise.
C9_FetchWindow ==
    pc = "download" =>
        LET f == fetch_frame[1]
            current_date == StrfDate(f.today)
        IN  /\ f.is_future = (start_date > current_date)
            /\ f.fetch_start = IF start_date > current_date
                               THEN current_date - 60
                               ELSE start_date

\* The clock read on the start date itself, after midnight: historical mode.
C9_Witness ==
    /\ pc = "download"
    /\ StrfDate(fetch_frame[1].today) = start_date
    /\ fetch_frame[1].today > ToDatetime(start_date)
    /\ ~fetch_frame[1].is_future
    /\ fetch_frame[1].fetch_start = start_date

\* The figures of the snapshot against the aggregate column: the last row,
\* the row before it (the last again when there is one row), their relative
\* change, the last value minus one.
C10_SnapshotValues ==
    /\ (pc \in {"details", "done"} /\ ~FrameEmpty(all_navs)) => snapshot.shown
    /\ snapshot.shown =>
         LET n == Len(all_navs.index)
             last == all_navs.cell[TOTAL][all_navs.index[n]]
             prior == IF n >= 2 THEN all_navs.cell[TOTAL][all_navs.index[n - 1]]
                      ELSE last
             dc == snapshot.daily_change
             tr == snapshot.total_return
         IN  /\ snapshot.latest_nav = last
             /\ snapshot.prev_nav = prior
             /\ IF IsNaN(last) THEN IsNaN(tr)
                ELSE ~IsNaN(tr) /\ tr[1] * last[2] = (last[1] - last[2]) * tr[2]
             /\ IF IsNaN(last) \/ IsNaN(prior) THEN IsNaN(dc)
                ELSE /\ ~IsNaN(dc)
                     /\ dc[1] * last[2] * prior[1]
                          = (last[1] * prior[2] - prior[1] * last[2]) * dc[2]
             /\ (n = 1 /\ ~IsNaN(last)) => dc = Fl(0)

\* The dashboard step changes none of the computed series.
C10_ReadOnly ==
    [][pc = "dashboard" =>
         /\ all_navs' = all_navs
         /\ details_map' = details_map
         /\ calls' = calls
         /\ full_data' = full_data]_vars

\* C10: whenever the aggregate series is non-empty the snapshot holds its
\* last observation, the one before it (or the last itself when it is the
\* only one), daily_change = (latest - prior) / prior (0 with a single
\* observation) and latest - 1.0; taking the snapshot modifies no series.
C10_LatestSnapshot == []C10_SnapshotValues /\ C10_ReadOnly

\* A snapshot over two observations that differ.
C10_Witness ==
    /\ snapshot.shown
    /\ Len(all_navs.index) = 2
    /\ ~IsNaN(snapshot.latest_nav) /\ ~IsNaN(snapshot.prev_nav)
    /\ snapshot.latest_nav # snapshot.prev_nav
    /\ snapshot.daily_change # Fl(0)

====
